---- MODULE Spec2Model ----
(***************************************************************************)
(* The engine session manager of chess-insight-bar (the useStockfish hook) *)
(* and its protocol line parser, as a state machine.                       *)
(*                                                                         *)
(* Text is modelled as the sequence of its whitespace-separated tokens, a  *)
(* line "a b c" being <<"a", "b", "c">>; a message whose data is not a     *)
(* string is read by the handlers as the empty text, << >>.                *)
(*                                                                         *)
(* The hook is modelled in its lazy-setup form (ensureEngine fetches the   *)
(* engine script and spawns the worker on the first analyze call).         *)
(*                                                                         *)
(* The JavaScript event loop is kept: a promise continuation (a microtask) *)
(* runs before the next message event or I/O completion (a macrotask), so  *)
(* those are disabled while a continuation is runnable.                    *)
(***************************************************************************)
EXTENDS Integers, Sequences, FiniteSets, TLC

\* ---------------------------------------------------------------- bounds

\* Number of analyze calls made on one session.
MaxReq == 3

\* `depth = 14`, the default of analyze's second parameter.
DefaultDepth == 14

\* The (position descriptor, depth) pairs the callers pass.
Inputs == {<<"fenA", DefaultDepth>>, <<"fenB", 6>>}

\* -------------------------------------------------------- text and numbers

\* What parseInt gives for text that does not start with a number.
NaN == -999999

\* The characters of the tokens that may stand where a number is expected.
Chars(tok) ==
    CASE tok = "23"  -> <<"2", "3">>
      [] tok = "3"   -> <<"3">>
      [] tok = "-5"  -> <<"-", "5">>
      [] tok = "0"   -> <<"0">>
      [] tok = "10"  -> <<"1", "0">>
      [] tok = "12"  -> <<"1", "2">>
      [] tok = "7x"  -> <<"7", "x">>
      [] OTHER       -> <<"w">>

DigitValue(c) ==
    CASE c = "0" -> 0 [] c = "1" -> 1 [] c = "2" -> 2 [] c = "3" -> 3
      [] c = "4" -> 4 [] c = "5" -> 5 [] c = "6" -> 6 [] c = "7" -> 7
      [] c = "8" -> 8 [] c = "9" -> 9 [] OTHER -> -1

\* The value of the longest prefix of digits of cs, from position k on.
RECURSIVE DigitsFrom(_, _, _)
DigitsFrom(cs, k, acc) ==
    IF k > Len(cs) \/ DigitValue(cs[k]) < 0
    THEN acc
    ELSE DigitsFrom(cs, k + 1, 10 * acc + DigitValue(cs[k]))

\* parseInt(tok, 10): an optional sign, then the longest run of digits; NaN
\* when there is no digit.
ParseInt(tok) ==
    LET cs == Chars(tok)
        signed == Len(cs) >= 1 /\ cs[1] \in {"-", "+"}
        first == IF signed THEN 2 ELSE 1
    IN  IF first > Len(cs) \/ DigitValue(cs[first]) < 0
        THEN NaN
        ELSE IF signed /\ cs[1] = "-"
             THEN 0 - DigitsFrom(cs, first, 0)
             ELSE DigitsFrom(cs, first, 0)

\* parts.indexOf(tok), 1-based; 0 when absent.
IndexOf(parts, tok) ==
    IF \E k \in 1..Len(parts) : parts[k] = tok
    THEN CHOOSE k \in 1..Len(parts) :
            parts[k] = tok /\ \A j \in 1..(k - 1) : parts[j] # tok
    ELSE 0

\* A truthy array element: present and not the empty string.
Truthy(parts, k) == k >= 1 /\ k <= Len(parts) /\ parts[k] # ""

\* text.startsWith(word + " ")
StartsWith(line, word) == Len(line) >= 2 /\ line[1] = word

\* text.includes(word)
Includes(line, word) == \E k \in 1..Len(line) : line[k] = word

\* An optional principal variation: undefined, or the moves after "pv".
NoPv == [present |-> FALSE, moves |-> << >>]
SomePv(pvMoves) == [present |-> TRUE, moves |-> pvMoves]

CpZero == [type |-> "cp", value |-> 0]

NoMatch == [ok |-> FALSE, eval |-> CpZero, pv |-> NoPv]

\* A faulty variant: the slice starts at the "pv" token, not after it.
parseInfoLineKeepsPvToken(parts) ==
    LET idxScore == IndexOf(parts, "score")
        pvIdx == IndexOf(parts, "pv")
    IN  IF idxScore # 0 /\ Truthy(parts, idxScore + 1)
        THEN [ok |-> TRUE,
              eval |-> [type |-> parts[idxScore + 1],
                        value |-> IF Truthy(parts, idxScore + 2)
                                  THEN ParseInt(parts[idxScore + 2])
                                  ELSE 0],
              pv |-> IF pvIdx # 0
                     THEN SomePv(SubSeq(parts, pvIdx, Len(parts)))
                     ELSE NoPv]
        ELSE NoMatch

\* A faulty variant: indexOf's "absent" is not tested, so without a "score"
\* token the kind is read from the start of the line.
parseInfoLineNoAbsentTest(parts) ==
    LET idxScore == IndexOf(parts, "score")
        pvIdx == IndexOf(parts, "pv")
    IN  IF Truthy(parts, idxScore + 1)
        THEN [ok |-> TRUE,
              eval |-> [type |-> parts[idxScore + 1],
                        value |-> IF Truthy(parts, idxScore + 2)
                                  THEN ParseInt(parts[idxScore + 2])
                                  ELSE 0],
              pv |-> IF pvIdx # 0
                     THEN SomePv(SubSeq(parts, pvIdx + 1, Len(parts)))
                     ELSE NoPv]
        ELSE NoMatch

parseInfoLine(parts) ==
    LET idxScore == IndexOf(parts, "score")
        pvIdx == IndexOf(parts, "pv")
    IN  IF idxScore # 0 /\ Truthy(parts, idxScore + 1)
        THEN [ok |-> TRUE,
              eval |-> [type |-> parts[idxScore + 1],
                        value |-> IF Truthy(parts, idxScore + 2)
                                  THEN ParseInt(parts[idxScore + 2])
                                  ELSE 0],
              pv |-> IF pvIdx # 0
                     THEN SomePv(SubSeq(parts, pvIdx + 1, Len(parts)))
                     ELSE NoPv]
        ELSE NoMatch

MateValue == 100000

\* A faulty variant: no case for the value 0.
mapEvalNoZeroCase(e) ==
    IF e.type = "cp"
    THEN e.value
    ELSE LET sign == IF e.value # NaN /\ e.value > 0 THEN 1 ELSE -1
         IN  sign * MateValue

\* A faulty variant: centipawn values are clamped to the mate sentinel.
mapEvalClamped(e) ==
    IF e.type = "cp"
    THEN IF e.value > MateValue THEN MateValue
         ELSE IF e.value < 0 - MateValue THEN 0 - MateValue
         ELSE e.value
    ELSE LET sign == IF e.value = 0 THEN 0
                     ELSE IF e.value # NaN /\ e.value > 0 THEN 1 ELSE -1
         IN  sign * MateValue

mapEvalToCentipawns(e) ==
    IF e.type = "cp"
    THEN e.value
    ELSE LET sign == IF e.value = 0 THEN 0
                     ELSE IF e.value # NaN /\ e.value > 0 THEN 1 ELSE -1
         IN  sign * MateValue

\* Arithmetic and comparison of JavaScript numbers where an operand may be
\* NaN: an operation on NaN gives NaN, a comparison with NaN is false.
Minus(a, b) == IF a = NaN \/ b = NaN THEN NaN ELSE a - b
MathAbs(a) == IF a = NaN THEN NaN ELSE IF a < 0 THEN 0 - a ELSE a
MathMax(a, b) == IF a = NaN \/ b = NaN THEN NaN ELSE IF a > b THEN a ELSE b
Less(a, b) == a # NaN /\ b # NaN /\ a < b
Greater(a, b) == Less(b, a)
AtLeast(a, b) == a # NaN /\ b # NaN /\ a >= b
AtMost(a, b) == AtLeast(b, a)

\* A faulty variant: the change is taken from White's side whoever moved,
\* and its size, not its direction, decides the category.
categorizeMoveAbsLoss(evalBefore, evalAfter, playedIsBest, moveWasSac, ply, playerColor) ==
    LET beforeCp == mapEvalToCentipawns(evalBefore)
        afterCp == mapEvalToCentipawns(evalAfter)
        delta == Minus(afterCp, beforeCp)
        loss == Minus(0, delta)
        absLoss == MathAbs(loss)
    IN  IF ply <= 12 /\ Less(MathAbs(Minus(afterCp, beforeCp)), 40)
                    /\ playedIsBest
        THEN "Theory"
        ELSE IF playedIsBest
        THEN IF moveWasSac /\ Greater(delta, 100) THEN "Brilliant"
             ELSE IF Greater(delta, 100) THEN "Great"
             ELSE "Good"
        ELSE IF AtLeast(absLoss, 300) THEN "Blunder"
        ELSE IF AtLeast(absLoss, 100) THEN "Mistake"
        ELSE IF AtLeast(absLoss, 50) THEN "Inaccuracy"
        ELSE "Good"

categorizeMove(evalBefore, evalAfter, playedIsBest, moveWasSac, ply, playerColor) ==
    LET beforeCp == mapEvalToCentipawns(evalBefore)
        afterCp == mapEvalToCentipawns(evalAfter)
        evalChange == IF playerColor = "w"
                      THEN Minus(afterCp, beforeCp)
                      ELSE Minus(beforeCp, afterCp)
        evalLoss == MathMax(0, Minus(0, evalChange))
    IN  IF ply <= 12 /\ Less(MathAbs(Minus(afterCp, beforeCp)), 40)
                    /\ playedIsBest
        THEN "Theory"
        ELSE IF playedIsBest
        THEN IF moveWasSac /\ Greater(evalChange, 100) THEN "Brilliant"
             ELSE IF Greater(evalChange, 100) THEN "Great"
             ELSE "Good"
        ELSE IF AtLeast(evalLoss, 300) THEN "Blunder"
        ELSE IF AtLeast(evalLoss, 100) THEN "Mistake"
        ELSE IF AtLeast(evalLoss, 50) THEN "Inaccuracy"
        ELSE "Good"

\* ------------------------------------------------------------- the session

VARIABLES
    hasWindow,   \* typeof window !== "undefined"
    engineRef,   \* engineRef.current: 0 (null) or the worker's identity
    readyRef,    \* readyRef.current: [id, st], st "null" | "pending" | "resolved"
    reqs,        \* the analyze calls, in the order made: the queueRef chain
    listeners,   \* message listeners on the worker: 0 (onMsg) or a request
    sent,        \* what postMessage has sent to the worker, in order
    obs,         \* history: what the worker has posted, as the claims need it
    calc,        \* a call of a pure function: its argument and its result
    game,        \* Index: the chess.js object on the board, [fen, history]
    depth,       \* Index: the search depth chosen
    moves,       \* Index: the move list, a sequence of MoveRecord
    currentEval,        \* Index: the evaluation displayed
    currentBestMove,    \* Index: the best move displayed
    analyzing,          \* Index: the "analyzing" indicator
    analyzingCountRef,  \* Index: analyzingCountRef.current
    setupMode,          \* Index: setup mode is on
    calls        \* Index: the analyze calls not yet resolved, in the order made

\* The state of the page (the Index component).
page ==
    <<game, depth, moves, currentEval, currentBestMove, analyzing,
      analyzingCountRef, setupMode, calls>>

vars ==
    <<hasWindow, engineRef, readyRef, reqs, listeners, sent, obs, calc, page>>

\* What the session's operations leave alone: the history is written only
\* when the worker posts a line, calc only by a call of a pure function, the
\* page only by its own handlers.
aux == <<obs, calc, page>>

\* The state of the hook.
session == <<hasWindow, engineRef, readyRef, reqs, listeners, sent>>

\* A position. The board is not modelled square by square: a position is
\* the position the game began from and the moves played since.
StartFen == [base |-> "standard", line |-> << >>]

\* `undefined`, where a position's analysis is expected.
Undefined == [base |-> "undefined", line |-> << >>]

\* new Chess(fen): the position, and no move in the object's history.
NewChess(fen) == [fen |-> fen, history |-> << >>]

\* The page before any of its handlers or effects has run.
PageIdle ==
    /\ game = NewChess(StartFen)
    /\ depth = DefaultDepth
    /\ moves = << >>
    /\ currentEval = Undefined
    /\ currentBestMove = Undefined
    /\ analyzing = FALSE
    /\ analyzingCountRef = 0
    /\ setupMode = FALSE
    /\ calls = << >>

\* The fallback result of queueRef's initial value and of the catch branch.
Fallback == [eval |-> CpZero, bestMove |-> "0000", pv |-> NoPv]

\* The result slot of a promise that has not settled.
NoResult == [eval |-> CpZero, bestMove |-> "", pv |-> NoPv]

NullReady == [id |-> 0, st |-> "null"]

Cmd(c, f, d, i) == [cmd |-> c, fen |-> f, depth |-> d, by |-> i]

GoSent == {k \in DOMAIN sent : sent[k].cmd = "go depth"}

CommandsOf(i) == {k \in DOMAIN sent : sent[k].by = i}

\* The commands sent on behalf of requests.
RequestCommands == {k \in DOMAIN sent : sent[k].by # 0}

\* The history before the worker has posted anything: no acknowledgment, no
\* informational line for any request, no answer to a search, no line
\* ignored.
NoObs ==
    [acks |-> {}, info |-> [i \in 1..MaxReq |-> << >>], answers |-> << >>,
     ignored |-> FALSE]

\* No pure function is being called.
NoArgs ==
    [evalBefore |-> CpZero, evalAfter |-> CpZero, playedIsBest |-> FALSE,
     moveWasSac |-> FALSE, ply |-> 0, playerColor |-> "w"]

NoCalc ==
    [stage |-> "idle", fn |-> "none", line |-> << >>, out |-> NoMatch,
     eval |-> CpZero, cp |-> 0, args |-> NoArgs, category |-> "none"]

\* Request i is the Rank(i)-th whose commands reached the worker.
Rank(i) == Cardinality({j \in 1..i : CommandsOf(j) # {}})

\* Request i is in flight: its commands were sent and the worker has not
\* answered its search with a bestmove line.
Flying(i) == CommandsOf(i) # {} /\ Len(obs.answers) < Rank(i)

\* A line that is neither a bestmove line nor an informational line that
\* parses.
Ignored(line) ==
    /\ ~StartsWith(line, "bestmove")
    /\ ~(StartsWith(line, "info") /\ parseInfoLine(line).ok)

\* The history after the worker has posted `line`: the acknowledgments seen
\* ("readyok" counts as the reply to "isready" when it arrives after that
\* was sent and before any command of a request is sent), for the
\* request in flight the last informational line that parses, the bestmove
\* lines that answer a search, and whether this line is one to ignore that
\* reached a request in flight which had a line parsed before.
Observe(line) ==
    [acks |-> obs.acks
        \cup (IF Includes(line, "uciok") THEN {"uciok"} ELSE {})
        \cup (IF Includes(line, "readyok")
                 /\ \E k \in DOMAIN sent : sent[k].cmd = "isready"
                 /\ RequestCommands = {}
              THEN {"readyok"} ELSE {}),
     info |-> [i \in 1..MaxReq |->
                IF Flying(i) /\ StartsWith(line, "info")
                   /\ parseInfoLine(line).ok
                THEN line ELSE obs.info[i]],
     answers |-> IF StartsWith(line, "bestmove")
                    /\ Len(obs.answers) < Cardinality(GoSent)
                 THEN Append(obs.answers, line) ELSE obs.answers,
     ignored |-> /\ Ignored(line)
                 /\ \E i \in 1..MaxReq : Flying(i) /\ obs.info[i] # << >>]

\* The session state of the specification's data model.
SessionState ==
    IF engineRef = 0 THEN "uninitialized"
    ELSE IF readyRef.st = "pending" THEN "handshaking"
    ELSE IF \E i \in DOMAIN reqs : reqs[i].pc = "inflight" THEN "busy"
    ELSE "ready"

Settled(r) == r.pc \in {"resolved", "rejected"}

\* `resolve(value)` of a request's promise; a second resolve changes nothing.
Resolve(r, value, how) ==
    IF Settled(r) THEN r
    ELSE [r EXCEPT !.pc = "resolved", !.result = value, !.via = how]

\* A faulty variant: analyze starts its work without chaining it on queueRef.
StartEnabledUnchained(i) ==
    /\ i \in DOMAIN reqs
    /\ reqs[i].pc = "queued"

\* A faulty variant: the then-callback does not return the executor's
\* promise, so the chain moves on as soon as the previous executor has started.
StartEnabledNoReturn(i) ==
    /\ i \in DOMAIN reqs
    /\ reqs[i].pc = "queued"
    /\ (IF i = 1 THEN TRUE ELSE reqs[i - 1].pc # "queued")

\* A continuation of request i is runnable: the microtask queue is not empty.
StartEnabled(i) ==
    /\ i \in DOMAIN reqs
    /\ reqs[i].pc = "queued"
    /\ (IF i = 1 THEN TRUE ELSE Settled(reqs[i - 1]))

\* A faulty variant: the executor does not await readyRef.current.
BeginEnabledNoWait(i) ==
    /\ i \in DOMAIN reqs
    /\ reqs[i].pc = "awaitReady"

\* `await readyRef.current` of request i can return.
BeginEnabled(i) ==
    /\ i \in DOMAIN reqs
    /\ reqs[i].pc = "awaitReady"
    /\ readyRef.st # "pending"

MicrotaskPending == \E i \in DOMAIN reqs : StartEnabled(i) \/ BeginEnabled(i)

Init ==
    /\ hasWindow \in BOOLEAN
    /\ engineRef = 0
    /\ readyRef = NullReady
    /\ reqs = << >>
    /\ listeners = {}
    /\ sent = << >>
    /\ obs = NoObs
    /\ calc = NoCalc
    /\ PageIdle

\* analyze(fen, depth): chain a new unit of work on queueRef and return it.
Analyze(fen, searchDepth) ==
    /\ Len(reqs) < MaxReq
    /\ reqs' = Append(reqs,
                 [fen |-> fen, depth |-> searchDepth, pc |-> "queued",
                  setup |-> "none",
                  lastEval |-> CpZero, lastPv |-> NoPv,
                  result |-> NoResult, via |-> "none"])
    /\ UNCHANGED <<hasWindow, engineRef, readyRef, listeners, sent, aux>>

\* A faulty variant: the refs are plain objects made anew by every render.
RenderFreshRefs ==
    /\ engineRef' = 0
    /\ readyRef' = NullReady
    /\ UNCHANGED <<hasWindow, reqs, listeners, sent, aux>>

\* A re-render calls useStockfish again: useRef hands back the same refs.
Render ==
    /\ UNCHANGED vars

\* A faulty variant: no try/catch: the error of ensureEngine rejects the promise.
CatchEnsureMissing(r) == [r EXCEPT !.setup = "failed", !.pc = "rejected"]

\* The catch branch around `await ensureEngine()`.
CatchEnsure(r) == Resolve([r EXCEPT !.setup = "failed"], Fallback, "fallback")

\* The then-callback of request i runs: the executor calls ensureEngine, which
\* returns at once (no window, or the engine is there) or starts the fetch.
\* A rejected predecessor would reject this promise without running it.
StartRequest(i) ==
    /\ StartEnabled(i)
    /\ reqs' = [reqs EXCEPT ![i] =
                 IF i > 1 /\ reqs[i - 1].pc = "rejected"
                 THEN [@ EXCEPT !.pc = "rejected"]
                 ELSE IF ~hasWindow
                 THEN [@ EXCEPT !.pc = "awaitReady", !.setup = "nowindow"]
                 ELSE IF engineRef # 0 /\ readyRef.st # "null"
                 THEN [@ EXCEPT !.pc = "awaitReady", !.setup = "reused"]
                 ELSE [@ EXCEPT !.pc = "fetch"]]
    /\ UNCHANGED <<hasWindow, engineRef, readyRef, listeners, sent, aux>>

\* `await fetch(...)` settles: rejected, a response that is not ok, or ok.
FetchSettle(i, outcome) ==
    /\ i \in DOMAIN reqs
    /\ reqs[i].pc = "fetch"
    /\ reqs' = [reqs EXCEPT ![i] =
                 IF outcome = "ok"
                 THEN [@ EXCEPT !.pc = "text"]
                 ELSE CatchEnsure(@)]
    /\ UNCHANGED <<hasWindow, engineRef, readyRef, listeners, sent, aux>>

\* A faulty variant: readyRef is set to a promise that is already resolved,
\* so nothing waits for the acknowledgment of "uci".
TextSettleNoHandshake(i, outcome) ==
    /\ i \in DOMAIN reqs
    /\ reqs[i].pc = "text"
    /\ IF outcome = "ok"
       THEN /\ engineRef' = i
            /\ readyRef' = [id |-> i, st |-> "resolved"]
            /\ listeners' = listeners
            /\ sent' = Append(sent, Cmd("uci", "", 0, 0))
            /\ reqs' = [reqs EXCEPT ![i] =
                         [@ EXCEPT !.pc = "awaitReady", !.setup = "created"]]
       ELSE /\ reqs' = [reqs EXCEPT ![i] = CatchEnsure(@)]
            /\ UNCHANGED <<engineRef, readyRef, listeners, sent>>
    /\ UNCHANGED <<hasWindow, aux>>

\* `await resp.text()` settles; on success the worker is constructed (which
\* may throw), the refs are set, onMsg is attached and "uci" is sent.
TextSettle(i, outcome) ==
    /\ i \in DOMAIN reqs
    /\ reqs[i].pc = "text"
    /\ IF outcome = "ok"
       THEN /\ engineRef' = i
            /\ readyRef' = [id |-> i, st |-> "pending"]
            /\ listeners' = listeners \cup {0}
            /\ sent' = Append(sent, Cmd("uci", "", 0, 0))
            /\ reqs' = [reqs EXCEPT ![i] =
                         [@ EXCEPT !.pc = "awaitReady", !.setup = "created"]]
       ELSE /\ reqs' = [reqs EXCEPT ![i] = CatchEnsure(@)]
            /\ UNCHANGED <<engineRef, readyRef, listeners, sent>>
    /\ UNCHANGED <<hasWindow, aux>>

\* A faulty variant: the search is always started with the default depth.
BeginSearchDefaultDepth(i) ==
    /\ BeginEnabled(i)
    /\ IF engineRef = 0
       THEN /\ reqs' = [reqs EXCEPT ![i] = [@ EXCEPT !.pc = "hung"]]
            /\ UNCHANGED <<listeners, sent>>
       ELSE /\ reqs' = [reqs EXCEPT ![i] =
                         [@ EXCEPT !.pc = "inflight",
                                   !.lastEval = CpZero, !.lastPv = NoPv]]
            /\ listeners' = listeners \cup {i}
            /\ sent' = sent \o <<Cmd("ucinewgame", "", 0, i),
                                 Cmd("position fen", reqs[i].fen, 0, i),
                                 Cmd("go depth", "", DefaultDepth, i)>>
    /\ UNCHANGED <<hasWindow, engineRef, readyRef, aux>>

\* A faulty variant: lastEval and lastPv live in the hook, not in the
\* executor, so a request starts from what its predecessor left.
BeginSearchSharedAccumulators(i) ==
    /\ BeginEnabled(i)
    /\ IF engineRef = 0
       THEN /\ reqs' = [reqs EXCEPT ![i] = [@ EXCEPT !.pc = "hung"]]
            /\ UNCHANGED <<listeners, sent>>
       ELSE /\ reqs' = [reqs EXCEPT ![i] =
                         [@ EXCEPT !.pc = "inflight",
                                   !.lastEval = IF i > 1
                                                THEN reqs[i - 1].lastEval
                                                ELSE CpZero,
                                   !.lastPv = IF i > 1
                                              THEN reqs[i - 1].lastPv
                                              ELSE NoPv]]
            /\ listeners' = listeners \cup {i}
            /\ sent' = sent \o <<Cmd("ucinewgame", "", 0, i),
                                 Cmd("position fen", reqs[i].fen, 0, i),
                                 Cmd("go depth", "", reqs[i].depth, i)>>
    /\ UNCHANGED <<hasWindow, engineRef, readyRef, aux>>

\* `await readyRef.current` is over: the request's listener is attached and
\* its three commands are sent. With no engine, addEventListener is called on
\* null: the async executor throws and the promise is never settled.
BeginSearch(i) ==
    /\ BeginEnabled(i)
    /\ IF engineRef = 0
       THEN /\ reqs' = [reqs EXCEPT ![i] = [@ EXCEPT !.pc = "hung"]]
            /\ UNCHANGED <<listeners, sent>>
       ELSE /\ reqs' = [reqs EXCEPT ![i] =
                         [@ EXCEPT !.pc = "inflight",
                                   !.lastEval = CpZero, !.lastPv = NoPv]]
            /\ listeners' = listeners \cup {i}
            /\ sent' = sent \o <<Cmd("ucinewgame", "", 0, i),
                                 Cmd("position fen", reqs[i].fen, 0, i),
                                 Cmd("go depth", "", reqs[i].depth, i)>>
    /\ UNCHANGED <<hasWindow, engineRef, readyRef, aux>>

\* A faulty variant: the handshake waits for the reply to "isready", which
\* is only sent once the handshake is over.
HandshakeFiresOnReadyok(line) == 0 \in listeners /\ Includes(line, "readyok")

\* onMsg of the handshake fires on this line.
HandshakeFires(line) == 0 \in listeners /\ Includes(line, "uciok")

\* A faulty variant: a line without "pv" keeps the variation of an earlier line.
OnMessageKeepsPv(r, line) ==
    IF StartsWith(line, "info")
    THEN LET parsed == parseInfoLine(line)
         IN  IF parsed.ok
             THEN [r EXCEPT !.lastEval = parsed.eval,
                            !.lastPv = IF parsed.pv.present
                                       THEN parsed.pv ELSE r.lastPv]
             ELSE r
    ELSE IF StartsWith(line, "bestmove")
    THEN Resolve(r, [eval |-> r.lastEval, bestMove |-> line[2],
                     pv |-> r.lastPv], "engine")
    ELSE r

\* A faulty variant: the move is taken from the end of the bestmove line.
OnMessageLastToken(r, line) ==
    IF StartsWith(line, "info")
    THEN LET parsed == parseInfoLine(line)
         IN  IF parsed.ok
             THEN [r EXCEPT !.lastEval = parsed.eval, !.lastPv = parsed.pv]
             ELSE r
    ELSE IF StartsWith(line, "bestmove")
    THEN Resolve(r, [eval |-> r.lastEval, bestMove |-> line[Len(line)],
                     pv |-> r.lastPv], "engine")
    ELSE r

\* A faulty variant: a parsed mate score ends the request at once.
OnMessageResolvesOnMate(r, line) ==
    IF StartsWith(line, "info")
    THEN LET parsed == parseInfoLine(line)
         IN  IF parsed.ok
             THEN IF parsed.eval.type = "mate"
                  THEN Resolve(r, [eval |-> parsed.eval, bestMove |-> "0000",
                                   pv |-> parsed.pv], "engine")
                  ELSE [r EXCEPT !.lastEval = parsed.eval,
                                 !.lastPv = parsed.pv]
             ELSE r
    ELSE IF StartsWith(line, "bestmove")
    THEN Resolve(r, [eval |-> r.lastEval, bestMove |-> line[2],
                     pv |-> r.lastPv], "engine")
    ELSE r

\* A faulty variant: an informational line that does not parse clears what
\* was retained.
OnMessageResetsOnNoMatch(r, line) ==
    IF StartsWith(line, "info")
    THEN LET parsed == parseInfoLine(line)
         IN  IF parsed.ok
             THEN [r EXCEPT !.lastEval = parsed.eval, !.lastPv = parsed.pv]
             ELSE [r EXCEPT !.lastEval = CpZero, !.lastPv = NoPv]
    ELSE IF StartsWith(line, "bestmove")
    THEN Resolve(r, [eval |-> r.lastEval, bestMove |-> line[2],
                     pv |-> r.lastPv], "engine")
    ELSE r

\* onMessage of a request, applied to its closure state.
OnMessage(r, line) ==
    IF StartsWith(line, "info")
    THEN LET parsed == parseInfoLine(line)
         IN  IF parsed.ok
             THEN [r EXCEPT !.lastEval = parsed.eval, !.lastPv = parsed.pv]
             ELSE r
    ELSE IF StartsWith(line, "bestmove")
    THEN Resolve(r, [eval |-> r.lastEval, bestMove |-> line[2],
                     pv |-> r.lastPv], "engine")
    ELSE r

\* Lines the worker may send.
Lines ==
    {<<"uciok">>,
     <<"readyok">>,
     <<"info", "depth", "10", "score", "cp", "23", "pv", "e2e4", "e7e5">>,
     <<"info", "depth", "12", "score", "mate", "3">>,
     <<"info", "string", "hello">>,
     <<"bestmove", "e2e4", "ponder", "e7e5">>,
     <<"bestmove", "g1f3">>,
     <<"option", "score", "cp", "23", "pv", "e2e4">>,
     << >>}

\* A faulty variant: onMessage does not remove itself on a bestmove line.
EngineMessageKeepsListener(line) ==
    /\ engineRef # 0
    /\ ~MicrotaskPending
    /\ reqs' = [i \in DOMAIN reqs |->
                 IF i \in listeners THEN OnMessage(reqs[i], line) ELSE reqs[i]]
    /\ listeners' = listeners \ (IF HandshakeFires(line) THEN {0} ELSE {})
    /\ sent' = IF HandshakeFires(line)
               THEN Append(sent, Cmd("isready", "", 0, 0))
               ELSE sent
    /\ readyRef' = IF HandshakeFires(line)
                   THEN [readyRef EXCEPT !.st = "resolved"]
                   ELSE readyRef
    /\ obs' = Observe(line)
    /\ UNCHANGED <<hasWindow, engineRef, calc, page>>

\* The worker posts a line: every attached listener is called with it.
EngineMessage(line) ==
    /\ engineRef # 0
    /\ ~MicrotaskPending
    /\ reqs' = [i \in DOMAIN reqs |->
                 IF i \in listeners THEN OnMessage(reqs[i], line) ELSE reqs[i]]
    /\ listeners' =
         (listeners \ (IF HandshakeFires(line) THEN {0} ELSE {}))
            \ {i \in listeners \ {0} : StartsWith(line, "bestmove")}
    /\ sent' = IF HandshakeFires(line)
               THEN Append(sent, Cmd("isready", "", 0, 0))
               ELSE sent
    /\ readyRef' = IF HandshakeFires(line)
                   THEN [readyRef EXCEPT !.st = "resolved"]
                   ELSE readyRef
    /\ obs' = Observe(line)
    /\ UNCHANGED <<hasWindow, engineRef, calc, page>>

\* The worker raises an "error" event (it failed): the hook registers no
\* listener for it, so nothing in the session changes.
WorkerError ==
    /\ engineRef # 0
    /\ UNCHANGED vars

Next ==
    \/ \E in \in Inputs : Analyze(in[1], in[2])
    \/ Render
    \/ WorkerError
    \/ \E i \in 1..MaxReq : StartRequest(i)
    \/ \E i \in 1..MaxReq : \E o \in {"reject", "notok", "ok"} : FetchSettle(i, o)
    \/ \E i \in 1..MaxReq : \E o \in {"reject", "throw", "ok"} : TextSettle(i, o)
    \/ \E i \in 1..MaxReq : BeginSearch(i)
    \/ \E line \in Lines : EngineMessage(line)

Spec == Init /\ [][Next]_vars

\* The event loop runs every runnable promise continuation.
Microtasks == \E i \in 1..MaxReq : StartRequest(i) \/ BeginSearch(i)

FairSpec == Spec /\ WF_vars(Microtasks)

\* A worker that acknowledges "uci" and answers the search in flight.
EngineAck == EngineMessage(<<"uciok">>) /\ 0 \in listeners

EngineAnswer ==
    /\ \E i \in DOMAIN reqs : reqs[i].pc = "inflight"
    /\ \E line \in Lines : StartsWith(line, "bestmove") /\ EngineMessage(line)

LiveSpec == FairSpec /\ WF_vars(EngineAck) /\ WF_vars(EngineAnswer)

\* ------------------------------------------------- the parser on its own

\* Longest line, in tokens, the parser is called with.
MaxLineLen == 4

\* The tokens of those lines; "" is what split(/\s+/) gives for white space
\* at the start or at the end of the text.
ParserTokens ==
    {"info", "score", "cp", "mate", "pv", "23", "-5", "7x", "none", ""}

\* Largest small value of an evaluation, and how far beyond the mate
\* sentinel the values go.
MaxValue == 4

\* The values of the evaluations mapEvalToCentipawns is called with: the
\* small ones around 0 and those around the sentinel, of both signs.
EvalValues ==
    ((0 - MaxValue)..MaxValue)
        \cup {s * (MateValue + d) : s \in {0 - 1, 1}, d \in (0 - 1)..MaxValue}

Evaluations == [type : {"cp", "mate"}, value : EvalValues]

\* How far from a threshold of categorizeMove the centipawn values lie.
MaxSlack == 1

\* The thresholds categorizeMove compares with.
Thresholds == {0, 40, 50, 100, 300}

\* The evaluations categorizeMove is called with: centipawn values at and
\* next to the thresholds, of both signs, mates for either side and "mate in
\* 0", and the NaN that parseInfoLine gives for a value that is no number.
CategoryValues ==
    {s * (t + d) : s \in {0 - 1, 1}, t \in Thresholds,
                   d \in (0 - MaxSlack)..MaxSlack} \cup {NaN}

CategoryEvaluations ==
    [type : {"cp"}, value : CategoryValues]
        \cup [type : {"mate"}, value : {0 - 1, 0, 1, NaN}]

\* The arguments of a call of categorizeMove; 12 is the last ply of the
\* "Theory" heuristic.
CategoryArgs ==
    [evalBefore : CategoryEvaluations, evalAfter : CategoryEvaluations,
     playedIsBest : BOOLEAN, moveWasSac : BOOLEAN, ply : {12, 13},
     playerColor : {"w", "b"}]

ParserLines ==
    {l \in UNION {[1..n -> ParserTokens] : n \in 0..MaxLineLen} :
        \A k \in 2..(Len(l) - 1) : l[k] # ""}

\* No session: the hook has not been called.
PureInit ==
    /\ hasWindow = TRUE
    /\ engineRef = 0
    /\ readyRef = NullReady
    /\ reqs = << >>
    /\ listeners = {}
    /\ sent = << >>
    /\ obs = NoObs
    /\ PageIdle
    /\ calc \in
         {[NoCalc EXCEPT !.stage = "call", !.fn = "parseInfoLine", !.line = l] :
             l \in ParserLines}
         \cup
         {[NoCalc EXCEPT !.stage = "call", !.fn = "mapEvalToCentipawns",
                         !.eval = e] : e \in Evaluations}
         \cup
         {[NoCalc EXCEPT !.stage = "call", !.fn = "categorizeMove",
                         !.args = a] : a \in CategoryArgs}

\* parseInfoLine(line) is called and returns.
CallParseInfoLine ==
    /\ calc.stage = "call"
    /\ calc.fn = "parseInfoLine"
    /\ calc' = [calc EXCEPT !.stage = "done", !.out = parseInfoLine(calc.line)]
    /\ UNCHANGED <<session, obs, page>>

\* mapEvalToCentipawns(e) is called and returns.
CallMapEvalToCentipawns ==
    /\ calc.stage = "call"
    /\ calc.fn = "mapEvalToCentipawns"
    /\ calc' = [calc EXCEPT !.stage = "done",
                            !.cp = mapEvalToCentipawns(calc.eval)]
    /\ UNCHANGED <<session, obs, page>>

\* categorizeMove(...) is called and returns.
CallCategorizeMove ==
    /\ calc.stage = "call"
    /\ calc.fn = "categorizeMove"
    /\ calc' = [calc EXCEPT
                  !.stage = "done",
                  !.category = categorizeMove(calc.args.evalBefore,
                                              calc.args.evalAfter,
                                              calc.args.playedIsBest,
                                              calc.args.moveWasSac,
                                              calc.args.ply,
                                              calc.args.playerColor)]
    /\ UNCHANGED <<session, obs, page>>

PureNext ==
    \/ CallParseInfoLine
    \/ CallMapEvalToCentipawns
    \/ CallCategorizeMove

PureSpec == PureInit /\ [][PureNext]_vars

\* ------------------------------------------------------------------ the page
\*
\* The Index component. Of the hook it uses analyze, whose promises resolve
\* in the order of the calls; an analysis result is modelled by the position
\* that was analysed. A handler runs together with the render and the effect
\* that follow it; a resolution runs together with its continuation.

\* Longest game played on the board, in plies.
MaxPly == 2

\* Most analyze calls unresolved at a time.
MaxPending == 4

\* Most analyze calls unresolved when the board is cleared or edited or a
\* game is imported.
MaxPendingSetup == 1

\* The moves a drop can ask for: chess.js accepts those of the side to move
\* and rejects the others.
WhiteMoves == {"e2e4", "g1f3"}
BlackMoves == {"e7e5", "g8f6"}

\* The board without pieces, White to move, that onClearBoard asks for.
EmptyFen == [base |-> "empty", line |-> << >>]

\* A position arranged by hand, the two kings alone, White to move: what an
\* edit of the board in setup mode leaves, and what the FEN tag of an
\* imported game names. Its king moves are not possible in the standard
\* position.
CustomFen == [base |-> "custom", line |-> << >>]
CustomWhiteMoves == {"e1d1"}
CustomBlackMoves == {"e8d8"}

Drops == WhiteMoves \cup BlackMoves \cup CustomWhiteMoves \cup CustomBlackMoves

\* The depths the slider can be set to.
Depths == {DefaultDepth, 8}

\* game.move(m) on a chess.js object.
MakeMove(g, m) ==
    [fen |-> [g.fen EXCEPT !.line = Append(@, m)],
     history |-> Append(g.history, m)]

\* The side to move.
Turn(fen) == IF Len(fen.line) % 2 = 0 THEN "w" ELSE "b"

\* The moves game.move accepts in a position.
LegalMoves(fen) ==
    CASE fen.base = "standard" ->
           IF Turn(fen) = "w" THEN WhiteMoves ELSE BlackMoves
      [] fen.base = "empty" -> {}
      [] OTHER ->
           IF Turn(fen) = "w" THEN CustomWhiteMoves ELSE CustomBlackMoves

\* Math.ceil(ply / 2)
CeilHalf(ply) == (ply + 1) \div 2

\* An analyze call awaited by analyzeCurrentPosition.
CurrentCall(fen, d) ==
    [kind |-> "current", fen |-> fen, depth |-> d, ply |-> 0,
     post |-> Undefined, before |-> Undefined]

\* The effect with dependencies [game.fen(), depth]: it runs
\* analyzeCurrentPosition when one of them has changed.
EffectRuns(newFen, newDepth) == newFen # game.fen \/ newDepth # depth

Effect(newFen, newDepth) ==
    /\ calls' = IF EffectRuns(newFen, newDepth)
                THEN Append(calls, CurrentCall(newFen, newDepth))
                ELSE calls
    /\ analyzingCountRef' = IF EffectRuns(newFen, newDepth)
                            THEN analyzingCountRef + 1
                            ELSE analyzingCountRef
    /\ analyzing' = IF EffectRuns(newFen, newDepth) THEN TRUE ELSE analyzing

\* The page after it was mounted: the effect has run once.
UiInit ==
    /\ hasWindow = TRUE
    /\ engineRef = 0
    /\ readyRef = NullReady
    /\ reqs = << >>
    /\ listeners = {}
    /\ sent = << >>
    /\ obs = NoObs
    /\ calc = NoCalc
    /\ game = NewChess(StartFen)
    /\ depth = DefaultDepth
    /\ moves = << >>
    /\ currentEval = Undefined
    /\ currentBestMove = Undefined
    /\ analyzing = TRUE
    /\ analyzingCountRef = 1
    /\ setupMode = FALSE
    /\ calls = <<CurrentCall(StartFen, DefaultDepth)>>

\* onDrop(from, to): wired to the board when setup mode is off.
onDrop(m) ==
    /\ ~setupMode
    /\ Len(game.fen.line) < MaxPly
    /\ Len(moves) < MaxPly
    /\ Len(calls) + 2 <= MaxPending
    /\ IF m \notin LegalMoves(game.fen)
       THEN UNCHANGED page
       ELSE LET preFen == game.fen
                next == MakeMove(NewChess(preFen), m)
                ply == Len(next.history)
                tempRec == [ply |-> ply,
                            moveNumber |-> CeilHalf(ply),
                            color |-> Turn(preFen),
                            uci |-> m,
                            fenAfter |-> next.fen,
                            evalBeforeCp |-> Undefined,
                            evalAfterCp |-> Undefined,
                            bestMoveUci |-> Undefined,
                            bestMoveSan |-> Undefined,
                            category |-> <<Undefined, Undefined>>]
                resBefore == [kind |-> "before", fen |-> preFen,
                              depth |-> depth, ply |-> ply,
                              post |-> next.fen, before |-> Undefined]
            IN  /\ game' = next
                /\ moves' = Append(moves, tempRec)
                /\ calls' = calls \o <<resBefore, CurrentCall(next.fen, depth)>>
                /\ analyzingCountRef' = analyzingCountRef + 1
                /\ analyzing' = TRUE
                /\ UNCHANGED <<depth, currentEval, currentBestMove, setupMode>>
    /\ UNCHANGED <<session, obs, calc>>

\* The replay of onUndo: the records' moves are made on a new Chess(), as
\* long as chess.js accepts them.
RECURSIVE Replay(_, _)
Replay(g, records) ==
    IF records = << >> \/ Head(records).uci \notin LegalMoves(g.fen)
    THEN [game |-> g, failed |-> records # << >>]
    ELSE Replay(MakeMove(g, Head(records).uci), Tail(records))

\* onUndo()
onUndo ==
    /\ Len(calls) + 1 <= MaxPending
    /\ IF setupMode \/ Len(moves) = 0
       THEN UNCHANGED page
       ELSE LET movesToReplay == SubSeq(moves, 1, Len(moves) - 1)
                replay == Replay(NewChess(StartFen), movesToReplay)
                newGame == replay.game
            IN  IF replay.failed
                THEN UNCHANGED page
                ELSE /\ game' = newGame
                     /\ moves' = movesToReplay
                     /\ Effect(newGame.fen, depth)
                     /\ UNCHANGED <<depth, currentEval, currentBestMove,
                                    setupMode>>
    /\ UNCHANGED <<session, obs, calc>>

\* onReset(), the "New Game" button.
onReset ==
    /\ Len(calls) + 1 <= MaxPending
    /\ game' = NewChess(StartFen)
    /\ moves' = << >>
    /\ setupMode' = FALSE
    /\ Effect(StartFen, depth)
    /\ UNCHANGED <<depth, currentEval, currentBestMove>>
    /\ UNCHANGED <<session, obs, calc>>

\* onClearBoard(): new Chess(emptyFen) gives the empty board or, where
\* chess.js refuses a position without kings, throws, and the handler
\* catches that and changes nothing.
onClearBoard ==
    /\ Len(calls) < MaxPendingSetup
    /\ \E accepted \in BOOLEAN :
          IF accepted
          THEN /\ game' = NewChess(EmptyFen)
               /\ moves' = << >>
               /\ setupMode' = TRUE
               /\ Effect(EmptyFen, depth)
               /\ UNCHANGED <<depth, currentEval, currentBestMove>>
          ELSE UNCHANGED page
    /\ UNCHANGED <<session, obs, calc>>

\* An edit of the board in setup mode: the piece placement of the FEN is
\* rewritten, the side to move and the other fields are kept, and the game
\* becomes new Chess(newFen); if chess.js refuses the position the handler
\* catches that and changes nothing. The move list is not touched. The
\* edits are those made with White to move.
SetupEdit ==
    /\ Len(calls) < MaxPendingSetup
    /\ Turn(game.fen) = "w"
    /\ \E accepted \in BOOLEAN :
          IF setupMode /\ accepted
          THEN /\ game' = NewChess(CustomFen)
               /\ Effect(CustomFen, depth)
               /\ UNCHANGED <<depth, moves, currentEval, currentBestMove,
                              setupMode>>
          ELSE UNCHANGED page
    /\ UNCHANGED <<session, obs, calc>>

\* onSquareClick(square) with a piece selected: the piece is placed.
onSquareClick == SetupEdit

\* onSetupPieceDrop(source, target, piece): wired to the board when setup
\* mode is on; the piece is moved, or removed when dropped off the board.
onSetupPieceDrop == setupMode /\ SetupEdit

\* The games of at most n plies that can be played from a position.
RECURSIVE GameLines(_, _)
GameLines(fen, n) ==
    IF n = 0
    THEN {<< >>}
    ELSE {<< >>} \cup
         UNION {{<<m>> \o rest :
                    rest \in GameLines([fen EXCEPT !.line = Append(@, m)],
                                       n - 1)} : m \in LegalMoves(fen)}

\* The PGN texts given to onImportPgn: a game from the standard position
\* (no FEN tag) or from the position its FEN tag names, and a text that
\* loadPgn refuses.
PgnTexts ==
    UNION {{[valid |-> TRUE, startFen |-> start, line |-> l] :
               l \in GameLines(start, MaxPly)} :
                  start \in {StartFen, CustomFen}}
        \cup {[valid |-> FALSE, startFen |-> StartFen, line |-> << >>]}

\* temp after the moves of the game were made on it.
RECURSIVE PlayLine(_, _)
PlayLine(g, line) ==
    IF line = << >> THEN g ELSE PlayLine(MakeMove(g, Head(line)), Tail(line))

\* onImportPgn(pgnText)
onImportPgn(pgn) ==
    /\ Len(calls) < MaxPendingSetup
    /\ IF ~pgn.valid
       THEN UNCHANGED page
       ELSE LET temp == PlayLine(NewChess(pgn.startFen), pgn.line)
                records ==
                    [ply \in 1..Len(pgn.line) |->
                        LET fenAfter == [pgn.startFen EXCEPT
                                           !.line = SubSeq(pgn.line, 1, ply)]
                            fenBefore ==
                                [pgn.startFen EXCEPT
                                   !.line = SubSeq(pgn.line, 1, ply - 1)]
                        IN  [ply |-> ply,
                             moveNumber |-> CeilHalf(ply),
                             color |-> Turn(fenBefore),
                             uci |-> pgn.line[ply],
                             fenAfter |-> fenAfter,
                             evalBeforeCp |-> Undefined,
                             evalAfterCp |-> Undefined,
                             bestMoveUci |-> Undefined,
                             bestMoveSan |-> Undefined,
                             category |-> <<Undefined, Undefined>>]]
            IN  /\ game' = temp
                /\ moves' = records
                /\ Effect(temp.fen, depth)
                /\ UNCHANGED <<depth, currentEval, currentBestMove, setupMode>>
    /\ UNCHANGED <<session, obs, calc>>

\* The depth slider: setDepth(d).
SetDepth(d) ==
    /\ Len(calls) + 1 <= MaxPending
    /\ depth' = d
    /\ Effect(game.fen, d)
    /\ UNCHANGED <<game, moves, currentEval, currentBestMove, setupMode>>
    /\ UNCHANGED <<session, obs, calc>>

\* The "Setup Mode" / "Play Mode" button: setSetupMode(!setupMode).
ToggleSetupMode ==
    /\ setupMode' = ~setupMode
    /\ UNCHANGED <<game, depth, moves, currentEval, currentBestMove,
                   analyzing, analyzingCountRef, calls>>
    /\ UNCHANGED <<session, obs, calc>>

\* The record of a move list after the analyses of a drop have resolved:
\* every record with this ply is annotated.
Annotate(m, call) ==
    IF m.ply = call.ply
    THEN [m EXCEPT !.evalBeforeCp = call.before,
                   !.evalAfterCp = call.fen,
                   !.bestMoveUci = call.before,
                   !.bestMoveSan = call.before,
                   !.category = <<call.before, call.fen>>]
    ELSE m

\* A completion that clears the indicator whatever else is outstanding:
\* setAnalyzing(false) in place of setAnalyzing(analyzingCountRef.current > 0).
ResolveCallClearsFlag ==
    /\ calls # << >>
    /\ LET call == Head(calls)
       IN  CASE call.kind = "current" ->
                  /\ currentEval' = call.fen
                  /\ currentBestMove' = call.fen
                  /\ analyzingCountRef' = analyzingCountRef - 1
                  /\ analyzing' = FALSE
                  /\ calls' = Tail(calls)
                  /\ UNCHANGED moves
             [] call.kind = "before" ->
                  /\ calls' = Append(Tail(calls),
                                     [call EXCEPT !.kind = "after",
                                                  !.fen = call.post,
                                                  !.before = call.fen])
                  /\ UNCHANGED <<moves, currentEval, currentBestMove,
                                 analyzing, analyzingCountRef>>
             [] call.kind = "after" ->
                  /\ moves' = [k \in DOMAIN moves |-> Annotate(moves[k], call)]
                  /\ currentEval' = call.fen
                  /\ currentBestMove' = call.fen
                  /\ calls' = Tail(calls)
                  /\ UNCHANGED <<analyzing, analyzingCountRef>>
    /\ UNCHANGED <<game, depth, setupMode>>
    /\ UNCHANGED <<session, obs, calc>>

\* The oldest unresolved analyze call resolves and the code awaiting it goes
\* on: analyzeCurrentPosition displays the result; onDrop's function, after
\* the analysis of the position before the move, calls analyze for the
\* position after it, and after that one annotates and displays.
ResolveCall ==
    /\ calls # << >>
    /\ LET call == Head(calls)
       IN  CASE call.kind = "current" ->
                  /\ currentEval' = call.fen
                  /\ currentBestMove' = call.fen
                  /\ analyzingCountRef' = analyzingCountRef - 1
                  /\ analyzing' = (analyzingCountRef - 1 > 0)
                  /\ calls' = Tail(calls)
                  /\ UNCHANGED moves
             [] call.kind = "before" ->
                  /\ calls' = Append(Tail(calls),
                                     [call EXCEPT !.kind = "after",
                                                  !.fen = call.post,
                                                  !.before = call.fen])
                  /\ UNCHANGED <<moves, currentEval, currentBestMove,
                                 analyzing, analyzingCountRef>>
             [] call.kind = "after" ->
                  /\ moves' = [k \in DOMAIN moves |-> Annotate(moves[k], call)]
                  /\ currentEval' = call.fen
                  /\ currentBestMove' = call.fen
                  /\ calls' = Tail(calls)
                  /\ UNCHANGED <<analyzing, analyzingCountRef>>
    /\ UNCHANGED <<game, depth, setupMode>>
    /\ UNCHANGED <<session, obs, calc>>

UiNext ==
    \/ \E m \in Drops : onDrop(m)
    \/ onUndo
    \/ onReset
    \/ \E d \in Depths : SetDepth(d)
    \/ ToggleSetupMode
    \/ onClearBoard
    \/ onSquareClick
    \/ onSetupPieceDrop
    \/ \E pgn \in PgnTexts : onImportPgn(pgn)
    \/ ResolveCall

UiSpec == UiInit /\ [][UiNext]_vars

\* ------------------------------------------------------------------ claims

InFlight == {i \in DOMAIN reqs : reqs[i].pc = "inflight"}

EngineResolved == {i \in DOMAIN reqs : reqs[i].via = "engine"}

\* C1: at most one request is in flight at any time: no command of another
\* request follows, in what was sent, a command of a request whose bestmove
\* line has not been received; and one more "go depth" has been sent than
\* bestmove lines have resolved requests at most, so exactly one before the
\* first bestmove.
C1_SingleSlot ==
    /\ Cardinality(InFlight) <= 1
    /\ \A i \in InFlight : \A k, m \in DOMAIN sent :
          (k < m /\ sent[k].by = i) => sent[m].by \in {0, i}
    /\ Cardinality(GoSent) <= Cardinality(EngineResolved) + 1
    /\ (EngineResolved = {} /\ InFlight # {}) => Cardinality(GoSent) = 1

\* Two calls made back to back: the first is in flight, its "go depth" sent
\* and not answered, and the second is held back.
C1_Witness ==
    /\ Len(reqs) >= 2
    /\ reqs[1].pc = "inflight"
    /\ reqs[2].pc = "queued"
    /\ Cardinality(GoSent) = 1

\* C2: the promises settle in submission order: a later request is never
\* settled while an earlier one is not, fallback results included.
C2_Fifo ==
    \A i, j \in DOMAIN reqs : (i < j /\ Settled(reqs[j])) => Settled(reqs[i])

C2_Witness ==
    /\ Len(reqs) >= 3
    /\ reqs[1].via = "fallback"
    /\ reqs[2].via = "engine"
    /\ reqs[3].via = "engine"

\* C3: a request submitted before the engine has finished starting (it is
\* there, unsettled, while the handshake is under way) is queued and is
\* eventually resolved by the engine, when the engine acknowledges "uci" and
\* answers every search.
C3_QueuedThenServed ==
    \A i \in 1..MaxReq :
        (/\ i \in DOMAIN reqs
         /\ readyRef.st = "pending"
         /\ ~Settled(reqs[i]))
        ~> (i \in DOMAIN reqs /\ reqs[i].pc = "resolved" /\ reqs[i].via = "engine")

\* The request that found no engine and created it, so was submitted before
\* the engine was ready, was resolved by the engine, and so was the next one.
C3_Witness ==
    /\ Len(reqs) >= 2
    /\ reqs[1].setup = "created"
    /\ reqs[1].via = "engine"
    /\ reqs[2].via = "engine"

\* C4: while the engine has not acknowledged "uci", every analyze call is
\* eventually resolved, to the fallback result, unless the acknowledgment
\* arrives.
C4_ResolvesWithoutAck ==
    \A i \in 1..MaxReq :
        (i \in DOMAIN reqs /\ engineRef # 0 /\ readyRef.st = "pending")
        ~> (\/ readyRef.st = "resolved"
            \/ i \in DOMAIN reqs /\ reqs[i].pc = "resolved"
                 /\ reqs[i].result = Fallback)

\* C5: after the handshake, every submitted request is eventually resolved,
\* whether or not the engine answers the search in flight.
C5_AlwaysResolves ==
    \A i \in 1..MaxReq :
        (i \in DOMAIN reqs /\ readyRef.st = "resolved")
        ~> (i \in DOMAIN reqs /\ reqs[i].pc = "resolved")

\* C6: a request whose engine could not be set up (the fetch or the worker
\* failed, or there is no window) is resolved with the fallback result as
\* soon as its continuations have run, and has sent no command.
C6_SetupFailureFallback ==
    \A i \in DOMAIN reqs :
        (reqs[i].setup \in {"failed", "nowindow"} /\ ~BeginEnabled(i))
        => (/\ reqs[i].pc = "resolved"
            /\ reqs[i].result = Fallback
            /\ CommandsOf(i) = {})

Attempted(r) == r.pc \in {"fetch", "text"} \/ r.setup \in {"failed", "created"}

\* C8: after a setup attempt has failed, no later analyze call makes another
\* attempt: at most one attempt per session.
C8_SingleSetupAttempt ==
    /\ Cardinality({i \in DOMAIN reqs : Attempted(reqs[i])}) <= 1
    /\ \A i, j \in DOMAIN reqs :
          (i < j /\ reqs[i].setup = "failed") => ~Attempted(reqs[j])

\* C9: once the setup has failed, every later request of the session is
\* resolved with the fallback result, never by the engine.
C9_DegradedForever ==
    \A i, j \in DOMAIN reqs :
        (i < j /\ reqs[i].setup = "failed" /\ Settled(reqs[j]))
        => (reqs[j].via = "fallback" /\ reqs[j].result = Fallback)

Creators == {i \in DOMAIN reqs : reqs[i].setup = "created"}

UciSent == {k \in DOMAIN sent : sent[k].cmd = "uci"}

\* C10: at most one worker is ever created, "uci" is sent to it exactly once,
\* and engineRef and readyRef, once set, are never replaced.
C10_SingleEngine ==
    /\ [](/\ Cardinality(Creators) <= 1
          /\ Cardinality(UciSent) = Cardinality(Creators)
          /\ (engineRef # 0) = (Creators # {})
          /\ \A i \in Creators : engineRef = i /\ readyRef.id = i)
    /\ [][engineRef # 0 =>
            (engineRef' = engineRef /\ readyRef'.id = readyRef.id)]_vars

\* A failed attempt, then the worker is created, then it is reused.
C10_Witness ==
    /\ Len(reqs) >= 3
    /\ reqs[1].setup = "failed"
    /\ reqs[2].setup = "created"
    /\ reqs[3].setup = "reused"
    /\ reqs[3].via = "engine"

IsreadySent == {k \in DOMAIN sent : sent[k].cmd = "isready"}

\* C11: "uci" is the first message sent to the engine and nothing else is
\* sent until a line containing "uciok" has been received; "isready" is sent
\* once, as the message right after "uci", when that line has been received
\* and not before.
C11_HandshakeOrder ==
    /\ sent # << >> => sent[1] = Cmd("uci", "", 0, 0)
    /\ "uciok" \notin obs.acks => Len(sent) <= 1
    /\ Cardinality(IsreadySent) <= 1
    /\ "uciok" \in obs.acks => IsreadySent = {2}

\* The handshake is over and a request's commands have been sent.
C11_Witness ==
    /\ "uciok" \in obs.acks
    /\ IsreadySent = {2}
    /\ GoSent # {}

\* C12: no command of a request ("ucinewgame", "position fen", "go depth")
\* is sent before the engine's reply to "isready" has been received.
C12_ReadyBeforeCommands == RequestCommands # {} => "readyok" \in obs.acks

\* C13: for every request that reaches the engine exactly three commands are
\* sent, one right after the other and in this order: "ucinewgame", "position
\* fen" with the fen of that analyze call, "go depth" with its depth; and
\* from the moment they are sent until the engine answers, the request's
\* message listener is attached.
C13_ThreeCommands ==
    \A i \in DOMAIN reqs :
        CommandsOf(i) # {} =>
            /\ \E k \in DOMAIN sent :
                  /\ CommandsOf(i) = {k, k + 1, k + 2}
                  /\ sent[k] = Cmd("ucinewgame", "", 0, i)
                  /\ sent[k + 1] = Cmd("position fen", reqs[i].fen, 0, i)
                  /\ sent[k + 2] = Cmd("go depth", "", reqs[i].depth, i)
            /\ Flying(i) => i \in listeners

\* A request made with a depth other than the default is the second one to
\* reach the engine, after the first was answered.
C13_Witness ==
    \E i \in DOMAIN reqs :
        /\ reqs[i].depth # DefaultDepth
        /\ Rank(i) = 2
        /\ Flying(i)

\* C14: the evaluation and the principal variation of a result both come
\* from the last informational line that was parsed while the request was in
\* flight, whatever came before it: if that line has no "pv" the result has
\* no principal variation.
C14_LastWriterWins ==
    \A i \in EngineResolved :
        obs.info[i] # << >> =>
            /\ reqs[i].result.eval = parseInfoLine(obs.info[i]).eval
            /\ reqs[i].result.pv = parseInfoLine(obs.info[i]).pv

\* A request was resolved whose last parsed line has a score and no "pv".
C14_Witness ==
    \E i \in EngineResolved :
        /\ obs.info[i] # << >>
        /\ ~parseInfoLine(obs.info[i]).pv.present
        /\ reqs[i].result.eval.type = "mate"
        /\ ~reqs[i].result.pv.present

\* C15: when no informational line was parsed between a request's commands
\* and the bestmove line that answers them, the result is the evaluation
\* {cp, 0}, no principal variation, and the token after "bestmove" of that
\* line as the best move.
C15_DefaultResult ==
    \A i \in EngineResolved :
        obs.info[i] = << >> =>
            reqs[i].result = [eval |-> CpZero,
                              bestMove |-> obs.answers[Rank(i)][2],
                              pv |-> NoPv]

\* A search was answered by "bestmove e2e4 ponder e7e5" with no line parsed
\* for it, after an earlier request had a line parsed.
C15_Witness ==
    \E i \in EngineResolved :
        /\ obs.info[i] = << >>
        /\ Len(obs.answers[Rank(i)]) > 2
        /\ \E j \in 1..(i - 1) : obs.info[j] # << >>

\* C16: the accumulators of a request start from the defaults and hold only
\* what was parsed from lines received while that request was in flight,
\* never what was received during an earlier request or between requests;
\* the result is built from them.
C16_Isolation ==
    \A j \in DOMAIN reqs :
        CommandsOf(j) # {} =>
            /\ reqs[j].lastEval = IF obs.info[j] = << >> THEN CpZero
                                  ELSE parseInfoLine(obs.info[j]).eval
            /\ reqs[j].lastPv = IF obs.info[j] = << >> THEN NoPv
                                ELSE parseInfoLine(obs.info[j]).pv
            /\ j \in EngineResolved =>
                  /\ reqs[j].result.eval = reqs[j].lastEval
                  /\ reqs[j].result.pv = reqs[j].lastPv

\* A request is in flight with nothing parsed yet, after an earlier request
\* was resolved with a score and a principal variation.
C16_Witness ==
    \E j \in DOMAIN reqs :
        /\ Flying(j)
        /\ obs.info[j] = << >>
        /\ \E i \in EngineResolved : i < j /\ reqs[i].result.pv.present

\* A request whose commands were sent is pending until the first bestmove
\* line after them is received, and resolved by the engine's answer from
\* then on.
ResolvedByAnswer ==
    \A i \in DOMAIN reqs :
        CommandsOf(i) # {} =>
            IF Flying(i)
            THEN reqs[i].pc = "inflight" /\ reqs[i].via = "none"
            ELSE reqs[i].pc = "resolved" /\ reqs[i].via = "engine"

\* No step changes the outcome of a resolved request.
ResolvedOnce ==
    \A i \in DOMAIN reqs :
        reqs[i].pc = "resolved" =>
            /\ reqs'[i].pc = "resolved"
            /\ reqs'[i].via = reqs[i].via
            /\ reqs'[i].result = reqs[i].result

\* C17: the promise of a request that reached the engine is resolved once:
\* by the first bestmove line received after its commands were sent and by
\* nothing else; lines arriving afterwards neither resolve it again nor
\* alter the result it delivered.
C17_ResolvedExactlyOnce == []ResolvedByAnswer /\ [][ResolvedOnce]_vars

\* Two requests were resolved by the engine, with different moves and
\* different evaluations: the lines of the later one left the earlier alone.
C17_Witness ==
    \E i, j \in EngineResolved :
        /\ i < j
        /\ reqs[i].result.bestMove # reqs[j].result.bestMove
        /\ reqs[i].result.eval # reqs[j].result.eval

\* C18: requests reach the engine in the order of their calls, and with one
\* bestmove line per "go depth" the i-th request that reached the engine is
\* resolved with the token right after "bestmove" of the i-th such line,
\* whatever follows that token on the line.
C18_InOrderPairing ==
    /\ \A i, j \in DOMAIN reqs :
          i < j => \A k \in CommandsOf(i) : \A m \in CommandsOf(j) : k < m
    /\ \A i \in DOMAIN reqs :
          (CommandsOf(i) # {} /\ Rank(i) <= Len(obs.answers)) =>
              /\ reqs[i].pc = "resolved"
              /\ reqs[i].result.bestMove = obs.answers[Rank(i)][2]

\* The third call is the second request to reach the engine (an earlier call
\* fell back); it got the move of the second bestmove line, which carries a
\* ponder move and differs from the first.
C18_Witness ==
    /\ Len(reqs) = 3
    /\ Rank(3) = 2
    /\ Len(obs.answers) = 2
    /\ Len(obs.answers[2]) > 2
    /\ obs.answers[1][2] # obs.answers[2][2]
    /\ reqs[3].result.bestMove = obs.answers[2][2]

\* The tokens that are integers in decimal notation, with their values.
NumeralOf == [t \in {"23", "-5"} |-> IF t = "23" THEN 23 ELSE 0 - 5]

\* C19: the value of an evaluation returned by parseInfoLine, for a line
\* whose kind token is "cp" or "mate", is the integer written by the token
\* after the kind token, and 0 when that token is missing or is not a number;
\* it is always an integer.
C19_ValueIsInteger ==
    (calc.stage = "done" /\ calc.out.ok
        /\ calc.out.eval.type \in {"cp", "mate"}) =>
        LET k == IndexOf(calc.line, "score") + 2
            v == calc.out.eval.value
        IN  /\ v # NaN
            /\ v = IF k <= Len(calc.line) /\ calc.line[k] \in DOMAIN NumeralOf
                   THEN NumeralOf[calc.line[k]]
                   ELSE 0

\* C20: an evaluation returned by parseInfoLine has the kind "cp" or "mate";
\* a line whose token after "score" is neither of the two, or is absent, is
\* not matched.
C20_KindIsCpOrMate ==
    calc.stage = "done" =>
        LET k == IndexOf(calc.line, "score") + 1
            kindOk == /\ k > 1
                      /\ k <= Len(calc.line)
                      /\ calc.line[k] \in {"cp", "mate"}
        IN  /\ calc.out.ok => calc.out.eval.type \in {"cp", "mate"}
            /\ ~kindOk => ~calc.out.ok

\* The positions of a line at which the fragment "score <kind> <v>" starts,
\* with kind "cp" or "mate" and v an integer.
ScoreFragments(line) ==
    {k \in 1..(Len(line) - 2) :
        /\ line[k] = "score"
        /\ line[k + 1] \in {"cp", "mate"}
        /\ line[k + 2] \in DOMAIN NumeralOf}

\* What the claim expects of the principal variation: the tokens after the
\* first "pv" token, and none when there is no such token.
ExpectedPv(line) ==
    IF \E p \in 1..Len(line) : line[p] = "pv"
    THEN LET p == CHOOSE q \in 1..Len(line) :
                    line[q] = "pv" /\ \A j \in 1..(q - 1) : line[j] # "pv"
         IN  SomePv([m \in 1..(Len(line) - p) |-> line[p + m]])
    ELSE NoPv

\* C21: for every line whose first "score" token is followed by a kind "cp"
\* or "mate" and an integer v, parseInfoLine returns the evaluation
\* {kind, v}; and the principal variation is the tokens after the "pv"
\* token when there is one and undefined when there is none.
C21_ParsesScoreAndPv ==
    calc.stage = "done" =>
        \A k \in ScoreFragments(calc.line) :
            (\A j \in 1..(k - 1) : calc.line[j] # "score") =>
                /\ calc.out.ok
                /\ calc.out.eval = [type |-> calc.line[k + 1],
                                    value |-> NumeralOf[calc.line[k + 2]]]
                /\ calc.out.pv = ExpectedPv(calc.line)

\* "pv score mate -5" was parsed: a mate score, and a principal variation
\* that is not empty.
C21_Witness ==
    /\ calc.stage = "done"
    /\ ScoreFragments(calc.line) # {}
    /\ calc.out.ok
    /\ calc.out.eval = [type |-> "mate", value |-> 0 - 5]
    /\ calc.out.pv.present
    /\ calc.out.pv.moves # << >>

\* C21 as stated: for every line containing "score <kind> <v>", wherever the
\* fragment stands, parseInfoLine returns the evaluation {kind, v}.
C21_AnyScoreFragment ==
    calc.stage = "done" =>
        \A k \in ScoreFragments(calc.line) :
            /\ calc.out.ok
            /\ calc.out.eval = [type |-> calc.line[k + 1],
                                value |-> NumeralOf[calc.line[k + 2]]]

\* C22: for every line without a "score" token parseInfoLine returns "no
\* match", whatever other tokens the line has.
C22_NoScoreNoMatch ==
    (calc.stage = "done" /\ \A k \in 1..Len(calc.line) : calc.line[k] # "score")
        => calc.out = NoMatch

\* A line with "pv", "cp" and a number, and no "score" token, was not matched.
C22_Witness ==
    /\ calc.stage = "done"
    /\ \A k \in 1..Len(calc.line) : calc.line[k] # "score"
    /\ \E k \in 1..Len(calc.line) : calc.line[k] = "pv"
    /\ \E k \in 1..(Len(calc.line) - 1) :
          calc.line[k] = "cp" /\ calc.line[k + 1] = "23"
    /\ ~calc.out.ok

MapCalled == calc.stage = "done" /\ calc.fn = "mapEvalToCentipawns"

\* C23: mapEvalToCentipawns maps a mate evaluation {mate, v} to +100000 for
\* v > 0, to -100000 for v < 0 and to 0 for v = 0.
C23_MateSentinel ==
    (MapCalled /\ calc.eval.type = "mate") =>
        calc.cp = IF calc.eval.value > 0 THEN 100000
                  ELSE IF calc.eval.value < 0 THEN 0 - 100000
                  ELSE 0

\* "Mate in 0" was mapped to 0.
C23_Witness ==
    /\ MapCalled
    /\ calc.eval = [type |-> "mate", value |-> 0]
    /\ calc.cp = 0

\* C24: mapEvalToCentipawns returns v for a centipawn evaluation {cp, v},
\* for every integer v, those beyond +/-100000 included.
C24_CpUnchanged ==
    (MapCalled /\ calc.eval.type = "cp") => calc.cp = calc.eval.value

\* A centipawn value below -100000 was returned as it is.
C24_Witness ==
    /\ MapCalled
    /\ calc.eval.type = "cp"
    /\ calc.eval.value < 0 - 100000
    /\ calc.cp = calc.eval.value

\* A step in which the request in flight changes or is left without its
\* listener is not the worker posting a line to ignore.
IgnoredIsNoOp ==
    \A i \in DOMAIN reqs :
        (Flying(i) /\ ~(reqs'[i] = reqs[i] /\ i \in listeners')) =>
            \A line \in Lines : ~(Ignored(line) /\ EngineMessage(line))

\* C25: while a request is in flight, a line that is neither a bestmove line
\* nor an informational line that parses ("readyok", "uciok", "info string
\* hello", a line with a score and no "info" marker, a message that is not
\* text) leaves the retained evaluation and variation as they are, does not
\* resolve the request and does not detach its listener.
C25_IgnoredLinesNoOp == [][IgnoredIsNoOp]_vars

\* The line just received was ignored by a request in flight, which still
\* holds what it parsed before, is pending and has its listener attached.
C25_Witness ==
    /\ obs.ignored
    /\ \E i \in DOMAIN reqs :
          /\ Flying(i)
          /\ obs.info[i] # << >>
          /\ reqs[i].lastEval = parseInfoLine(obs.info[i]).eval
          /\ reqs[i].lastPv = parseInfoLine(obs.info[i]).pv
          /\ reqs[i].lastPv.present
          /\ reqs[i].pc = "inflight"
          /\ i \in listeners

\* C26: at most one message listener is attached to the worker at any time:
\* the handshake's, only until "uciok" is received, or that of the request
\* in flight, only until its bestmove line is received; when all requests
\* made have been resolved no listener is attached.
C26_ListenerDiscipline ==
    /\ Cardinality(listeners) <= 1
    /\ 0 \in listeners => (engineRef # 0 /\ "uciok" \notin obs.acks)
    /\ \A i \in listeners \ {0} : i \in DOMAIN reqs /\ Flying(i)
    /\ (\A i \in DOMAIN reqs : reqs[i].pc = "resolved") => listeners = {}

\* All three requests were resolved, two of them by the engine, and no
\* listener is left.
C26_Witness ==
    /\ Len(reqs) = 3
    /\ \A i \in DOMAIN reqs : reqs[i].pc = "resolved"
    /\ Cardinality(EngineResolved) >= 2
    /\ listeners = {}

\* The moves of the session state the lifecycle allows.
LifecycleMoves ==
    {<<"uninitialized", "handshaking">>, <<"handshaking", "ready">>,
     <<"ready", "busy">>, <<"busy", "ready">>}

\* The session is busy exactly while one request is in flight.
BusyWhileFlying ==
    /\ Cardinality({i \in DOMAIN reqs : Flying(i)}) <= 1
    /\ SessionState = "busy" <=> \E i \in DOMAIN reqs : Flying(i)

\* A step keeps the session state or makes one of the allowed moves, and a
\* request becomes in flight only from the state ready.
LifecycleStep ==
    /\ SessionState' # SessionState =>
          <<SessionState, SessionState'>> \in LifecycleMoves
    /\ \A i \in DOMAIN reqs :
          (CommandsOf(i) = {} /\ CommandsOf(i)' # {}) => SessionState = "ready"

\* C27: the session state only moves uninitialized -> handshaking -> ready
\* -> busy -> ready; once ready it never goes back to uninitialized or
\* handshaking; it is busy exactly while one request's commands have been
\* sent and its bestmove line has not been received; and no request becomes
\* in flight while it is uninitialized or handshaking.
C27_Lifecycle == []BusyWhileFlying /\ [][LifecycleStep]_vars

\* The session is busy for the second time.
C27_Witness ==
    /\ SessionState = "busy"
    /\ EngineResolved # {}
    /\ \E i \in DOMAIN reqs : Flying(i) /\ Rank(i) = 2

\* C28: once every analyze call made has resolved, the evaluation and the
\* best move displayed are those of an analysis of the position on the
\* board, after any sequence of drops, undos, resets, depth changes and
\* resolutions.
C28_DisplaysCurrentPosition ==
    calls = << >> => (currentEval = game.fen /\ currentBestMove = game.fen)

\* C29: the i-th record of the move list has ply i and move number
\* ceil(i / 2).
C29_MoveNumbering ==
    \A i \in DOMAIN moves :
        moves[i].ply = i /\ moves[i].moveNumber = CeilHalf(i)

\* The position a record's move was played from.
FenBefore(m) ==
    [m.fenAfter EXCEPT !.line = SubSeq(@, 1, Len(m.fenAfter.line) - 1)]

\* C30: a record of the move list carries no annotation or the one of its
\* own move: the analyses of the positions before and after that move.
C30_OnlyOwnRecordAnnotated ==
    \A k \in DOMAIN moves :
        \/ /\ moves[k].evalBeforeCp = Undefined
           /\ moves[k].evalAfterCp = Undefined
           /\ moves[k].bestMoveUci = Undefined
           /\ moves[k].bestMoveSan = Undefined
           /\ moves[k].category = <<Undefined, Undefined>>
        \/ /\ moves[k].evalBeforeCp = FenBefore(moves[k])
           /\ moves[k].evalAfterCp = moves[k].fenAfter
           /\ moves[k].bestMoveUci = FenBefore(moves[k])
           /\ moves[k].bestMoveSan = FenBefore(moves[k])
           /\ moves[k].category = <<FenBefore(moves[k]), moves[k].fenAfter>>

\* The analyzeCurrentPosition calls whose analysis has not settled: the
\* unresolved analyze calls that analyzeCurrentPosition awaits.
Outstanding == {k \in DOMAIN calls : calls[k].kind = "current"}

\* C31: analyzingCountRef is never negative and is the number of
\* analyzeCurrentPosition calls whose analysis has not settled yet, and
\* whatever the order of starts and completions the analyzing flag is true
\* exactly when that number is greater than zero.
C31_AnalyzingTracksCount ==
    /\ analyzingCountRef >= 0
    /\ analyzingCountRef = Cardinality(Outstanding)
    /\ analyzing <=> (analyzingCountRef > 0)

\* Starts and completions have interleaved: an analysis has completed and
\* been displayed, two more are outstanding, and a drop's own analysis,
\* which the indicator does not count, is unresolved as well.
C31_Witness ==
    /\ currentEval # Undefined
    /\ analyzingCountRef = 2
    /\ analyzing
    /\ \E k \in DOMAIN calls : calls[k].kind # "current"

CategorizeCalled == calc.stage = "done" /\ calc.fn = "categorizeMove"

\* The change of the evaluation for the player who moved, in the call
\* recorded in calc.
MoverChange ==
    LET beforeCp == mapEvalToCentipawns(calc.args.evalBefore)
        afterCp == mapEvalToCentipawns(calc.args.evalAfter)
    IN  IF calc.args.playerColor = "w"
        THEN Minus(afterCp, beforeCp)
        ELSE Minus(beforeCp, afterCp)

\* C32: for a move that is not the engine's best, with evalChange =
\* afterCp - beforeCp for White and beforeCp - afterCp for Black,
\* categorizeMove returns Blunder iff evalChange <= -300, Mistake iff
\* -300 < evalChange <= -100, Inaccuracy iff -100 < evalChange <= -50 and
\* Good otherwise; a move that does not lower the mover's evaluation is
\* none of Inaccuracy, Mistake, Blunder, for either colour.
C32_LossFromMoversSide ==
    (CategorizeCalled /\ ~calc.args.playedIsBest) =>
        LET blunder == AtMost(MoverChange, 0 - 300)
            mistake == Greater(MoverChange, 0 - 300)
                           /\ AtMost(MoverChange, 0 - 100)
            inaccuracy == Greater(MoverChange, 0 - 100)
                              /\ AtMost(MoverChange, 0 - 50)
        IN  /\ calc.category = "Blunder" <=> blunder
            /\ calc.category = "Mistake" <=> mistake
            /\ calc.category = "Inaccuracy" <=> inaccuracy
            /\ calc.category = "Good" <=> ~(blunder \/ mistake \/ inaccuracy)
            /\ AtLeast(MoverChange, 0) =>
                   calc.category \notin {"Inaccuracy", "Mistake", "Blunder"}

\* Black played a move that is not the best and White's evaluation rose by
\* exactly 300: a blunder, by the flipped sign.
C32_Witness ==
    /\ CategorizeCalled
    /\ ~calc.args.playedIsBest
    /\ calc.args.playerColor = "b"
    /\ calc.args.evalBefore = [type |-> "cp", value |-> 0]
    /\ calc.args.evalAfter = [type |-> "cp", value |-> 300]
    /\ calc.category = "Blunder"

\* The position the records left after an undo lead to: the position after
\* the last of them, or the position the game began from.
RemainingPosition ==
    IF Len(moves) > 1
    THEN moves[Len(moves) - 1].fenAfter
    ELSE FenBefore(moves[1])

\* onUndo is called for outside setup mode with a record to remove, and its
\* replay fails: it returns without changing anything.
UndoRefused ==
    /\ ~setupMode
    /\ moves # << >>
    /\ Replay(NewChess(StartFen), SubSeq(moves, 1, Len(moves) - 1)).failed

\* What a step of onUndo has to do.
UndoStep ==
    onUndo =>
        IF setupMode \/ Len(moves) = 0
        THEN game' = game /\ moves' = moves
        ELSE /\ moves' = SubSeq(moves, 1, Len(moves) - 1)
             /\ game'.fen = RemainingPosition

\* C33: onUndo in setup mode or with an empty move list changes neither the
\* board nor the move list; otherwise it removes exactly the last record and
\* sets the board to the position the remaining records lead to, also when
\* the game began from a position other than the standard one (FEN tag of
\* an imported game, position built in setup mode).
C33_UndoRestoresPosition == []~UndoRefused /\ [][UndoStep]_vars

====
